---- MODULE Spec2Model ----
(***************************************************************************)
(* A model of the content synchronization scripts of augusteo.com-astro:   *)
(*   scripts/sync-content.ts              the sync run (Spec, FairSpec)     *)
(*   scripts/watch.ts                     the file-watch wrapper (WatchSpec)*)
(*   scripts/update-obsidian-frontmatter.ts  mapCategory (CategorySpec)     *)
(* Text is modelled as sequences: a filename is a sequence of characters,   *)
(* a document body a sequence of tokens (prose, embed-links, images).       *)
(***************************************************************************)
EXTENDS Integers, Sequences, FiniteSets, TLC

VARIABLES
    \* ---- the vault and the clock (inputs of scripts/sync-content.ts)
    vault,             \* filename -> source document (CONFIG.obsidianPublished)
    files,             \* the order in which readdirSync lists the vault
    srcImages,         \* image name -> content (CONFIG.obsidianFiles)
    today,             \* the day new Date() returns
    outcome,           \* URL -> how a download of it ends (fixed once seen)
    \* ---- the sync process
    run,               \* "first" or "rerun"
    pc,                \* position in syncContent
    fileList,          \* the local 'files' of syncContent
    i,                 \* index of the file the loop is at
    k,                 \* index of the URL downloadExternalImages is at
    processed, errors, \* the two counters of syncContent
    urlToLocal,        \* the map downloadExternalImages builds for one post
    downloadedImages,  \* the module-level cache
    fetch,             \* the downloadImage call in flight (or NoFetch)
    unlinkPending,     \* destinations with an fs.unlink issued, not yet done
    \* ---- the two output trees
    outDirs, outFiles,       \* CONFIG.outputDir
    assetDirs, assetFiles,   \* CONFIG.imageOutputDir
    \* ---- history variables, for stating properties
    attempts,          \* filename -> number of processPost calls in this run
    written,           \* the paths this run wrote
    prevOut,           \* the output trees the previous run ended with
    warned,            \* the files processPost warned "No hero image found" for
    late,              \* transfers still open after their promise resolved
    publishedDir,      \* files created in CONFIG.obsidianPublished
    returned,          \* URL -> what the downloadImage calls of this run returned
    \* ---- scripts/watch.ts
    syncProcess, debounceTimer, procs, mdWatcher,
    timers,            \* the timers setTimeout has set that are still to fire
    changes,           \* the number of watcher events so far
    \* ---- history variables of scripts/watch.ts
    quiet,             \* the time since the last watcher event
    burstSpawns,       \* sync processes spawned since the current burst began
    fresh,             \* the process spawned after the last watcher event, or 0
    served,            \* a process spawned after the last event closed unkilled
    \* ---- scripts/update-obsidian-frontmatter.ts
    fmInput, fmCategory,
    folder,            \* filename -> content: one folder of OBSIDIAN_BASE
    fmFiles, fmIndex,  \* the local 'files' of processFolder and the place in it
    fmRuns,            \* the number of invocations of the utility so far
    \* ---- history variables of scripts/update-obsidian-frontmatter.ts
    original,          \* the folder before the first invocation
    reads,             \* filename -> the paths processFile read its content from
    \* ---- one call of a pure function of scripts/sync-content.ts
    arg,               \* the arguments of the call
    result             \* [done, value]: what the call returned

syncVars == <<vault, files, srcImages, today, outcome, run, pc, fileList, i, k,
              processed, errors, urlToLocal, downloadedImages, fetch,
              unlinkPending, outDirs, outFiles, assetDirs, assetFiles,
              attempts, written, prevOut, warned, late, publishedDir, returned>>
watchVars == <<syncProcess, debounceTimer, procs, mdWatcher, timers, changes,
               quiet, burstSpawns, fresh, served>>
catVars == <<fmInput, fmCategory, folder, fmFiles, fmIndex, fmRuns, original, reads>>
callVars == <<arg, result>>
vars == <<syncVars, watchVars, catVars, callVars>>

\* ------------------------------------------------------------------ bounds
MaxFiles == 2      \* files in the vault
MaxProcs == 4      \* sync processes the watcher spawns
MaxChanges == 4    \* watcher events
MaxTags == 3       \* tags in a frontmatter tag list
MaxStem == 4       \* characters of a filename before ".md"
MaxLine == 4       \* characters of a body line given to escapeCurlyBraces
MaxText == 6       \* characters of a document given to parseObsidianFile
MaxBase == 3       \* characters of the base name of a downloaded image
MaxRuns == 2       \* invocations of the frontmatter utility

\* ------------------------------------------------------------ text helpers
RECURSIVE SeqToSet(_)
SeqToSet(s) == IF s = <<>> THEN {} ELSE {Head(s)} \cup SeqToSet(Tail(s))

RECURSIVE Dedup(_)
\* [...new Set(urls)]: the first occurrence of each element, in order
Dedup(s) ==
    IF s = <<>> THEN <<>>
    ELSE LET init == Dedup(SubSeq(s, 1, Len(s) - 1))
             last == s[Len(s)]
         IN  IF last \in SeqToSet(init) THEN init ELSE Append(init, last)

LowerOf == [c \in {"A", "B"} |-> IF c = "A" THEN "a" ELSE "b"]
toLowerCase(s) == [n \in 1..Len(s) |-> IF s[n] \in DOMAIN LowerOf THEN LowerOf[s[n]] ELSE s[n]]
SlugChars == {"a", "b", "m", "d", "0", "1"}     \* the [a-z0-9] of the alphabet used

\* .replace(/\.md$/, "")
StripMd(s) ==
    IF Len(s) >= 3 /\ SubSeq(s, Len(s) - 2, Len(s)) = <<".", "m", "d">>
    THEN SubSeq(s, 1, Len(s) - 3) ELSE s

RECURSIVE DropNonSlug(_)
DropNonSlug(s) ==
    IF s = <<>> \/ Head(s) \in SlugChars THEN s ELSE DropNonSlug(Tail(s))

RECURSIVE CollapseRuns(_)
\* .replace(/[^a-z0-9]+/g, "-"): each maximal run of other characters becomes one "-"
CollapseRuns(s) ==
    IF s = <<>> THEN <<>>
    ELSE IF Head(s) \in SlugChars THEN <<Head(s)>> \o CollapseRuns(Tail(s))
    ELSE <<"-">> \o CollapseRuns(DropNonSlug(s))

\* a faulty variant: only the leading "-" is removed
TrimDashes_LeadingOnly(s) == IF s # <<>> /\ Head(s) = "-" THEN Tail(s) ELSE s

\* .replace(/^-|-$/g, "")
TrimDashes(s) ==
    LET a == IF s # <<>> /\ Head(s) = "-" THEN Tail(s) ELSE s
    IN  IF a # <<>> /\ a[Len(a)] = "-" THEN SubSeq(a, 1, Len(a) - 1) ELSE a

generateSlug(filename, frontmatterSlug) ==
    IF frontmatterSlug # <<>> THEN frontmatterSlug
    ELSE TrimDashes(CollapseRuns(toLowerCase(StripMd(filename))))

\* ------------------------------------------------------------------- URLs
Hosts == {"a", "b"}
Paths == {"x", "y", "http-y"}
URLS == [host : Hosts, path : Paths]
NoUrl == [host |-> "", path |-> ""]
U1 == [host |-> "a", path |-> "x"]
U2 == [host |-> "b", path |-> "x"]
U3 == [host |-> "b", path |-> "y"]
\* a text the external-image patterns match and new URL() rejects: https://a b/x
\* (a space in the host)
BadUrl == [host |-> "a b", path |-> "x"]
\* no call of downloadImage has returned
NoneReturned == [u \in URLS |-> <<>>]

\* new URL(ref, base) for a path-relative reference
ResolveRelative(ref, base) == [host |-> base.host, path |-> ref]

\* generateLocalFilename: `${baseName}-${hash}${ext}`; the hash is of the whole URL
UrlHash(url) == "h" \o url.host \o url.path
generateLocalFilename(url) == url.path \o "-" \o UrlHash(url) \o ".jpg"

\* ----------------------------------------------------------- the documents
Text == [k |-> "text", name |-> "", url |-> NoUrl]
Local(n) == [k |-> "local", name |-> n, url |-> NoUrl]       \* ![[n]]
WikiExt(u) == [k |-> "wext", name |-> "", url |-> u]          \* ![[https://...]]
MdExt(u) == [k |-> "mext", name |-> "alt", url |-> u]         \* ![alt](https://...)

Doc(dated, body, readable) ==
    [dated |-> dated, body |-> body, readable |-> readable, slug |-> <<>>, heroImage |-> ""]
\* a dated, readable document with a frontmatter heroImage and a frontmatter slug
DocFm(body, heroImage, slug) ==
    [dated |-> TRUE, body |-> body, readable |-> TRUE, slug |-> slug, heroImage |-> heroImage]

\* a frontmatter slug that leads from CONFIG.outputDir to CONFIG.obsidianPublished
\* ("../v" in a layout where the two are siblings)
ToPublished == <<".", ".", "/", "v">>

Documents ==
    { Doc(TRUE, <<Text>>, TRUE),
      [Doc(FALSE, <<Local("p.jpg"), Text>>, TRUE) EXCEPT !.heroImage = "  "],
      Doc(TRUE, <<Text, WikiExt(U1), MdExt(U2), Local("q.jpg")>>, TRUE),
      Doc(TRUE, <<Local("d.jpg")>>, TRUE),
      Doc(TRUE, <<Text>>, FALSE),
      Doc(TRUE, <<WikiExt(BadUrl)>>, TRUE),
      DocFm(<<Local("q.jpg")>>, "p.jpg", <<>>),
      DocFm(<<Text>>, "", ToPublished) }

FILENAMES == { <<"a", ".", "m", "d">>, <<"A", ".", "m", "d">>, <<"B", "0", ".", "m", "d">> }

\* the source images directory: p.jpg is a file, d.jpg is a directory of that
\* name (existsSync is true, copyFileSync throws), q.jpg does not exist
SourceImages == [n \in {"p.jpg", "d.jpg"} |-> IF n = "p.jpg" THEN "bytes:p" ELSE "directory"]

Days == {"2026-11-02", "2026-11-03"}

\* extractImages: every local embed-link, in order, duplicates kept
extractImages(body) ==
    LET idx == {n \in 1..Len(body) : body[n].k = "local"}
        F[n \in 0..Len(body)] ==
            IF n = 0 THEN <<>>
            ELSE IF n \in idx THEN Append(F[n - 1], body[n].name) ELSE F[n - 1]
    IN  F[Len(body)]

UrlsOfKind(body, kind) ==
    LET F[n \in 0..Len(body)] ==
            IF n = 0 THEN <<>>
            ELSE IF body[n].k = kind THEN Append(F[n - 1], body[n].url) ELSE F[n - 1]
    IN  F[Len(body)]

\* extractExternalUrls: the embed-link URLs, then the display-image URLs, deduplicated
extractExternalUrls(body) == Dedup(UrlsOfKind(body, "wext") \o UrlsOfKind(body, "mext"))

\* ------------------------------------------------------------ the file trees
NoPath == [dir |-> <<>>, name |-> ""]
NoFetch == [url |-> NoUrl, dest |-> NoPath, redirected |-> FALSE]
PathOf(f) == [dir |-> f.dir, name |-> f.name]
WriteFile(tree, dir, name, content) ==
    {f \in tree : ~(f.dir = dir /\ f.name = name)}
        \cup {[dir |-> dir, name |-> name, content |-> content]}
RemoveFile(tree, path) == {f \in tree : PathOf(f) # path}
HasFile(tree, dir, name) == \E f \in tree : f.dir = dir /\ f.name = name

\* a faulty variant: only the content root is wiped, the image root is left as it is
cleanOutputDirs_SkipsImageRoot ==
    [outDirs |-> {}, outFiles |-> {}, assetDirs |-> assetDirs, assetFiles |-> assetFiles]

\* cleanOutputDirs: rmSync(recursive) and mkdirSync of both roots
cleanOutputDirs ==
    [outDirs |-> {}, outFiles |-> {}, assetDirs |-> {}, assetFiles |-> {}]

\* ------------------------------------------------------- transformContent
Img(alt, dir, file, url) == [k |-> "img", alt |-> alt, dir |-> dir, file |-> file, url |-> url]
Prose == [k |-> "text", alt |-> "", dir |-> <<>>, file |-> "", url |-> NoUrl]

\* a faulty variant: a display-image keeps its external URL, downloaded or not
transformToken_KeepsDisplayImages(t, slug, u2l) ==
    CASE t.k = "local" -> Img(t.name, slug, t.name, NoUrl)
      [] t.k = "wext" ->
            IF t.url \in DOMAIN u2l
            THEN Img("alt:" \o u2l[t.url], slug, u2l[t.url], NoUrl)
            ELSE Img("alt:" \o t.url.path, <<>>, "", t.url)
      [] t.k = "mext" -> Img(t.name, <<>>, "", t.url)
      [] OTHER -> Prose

transformToken(t, slug, u2l) ==
    CASE t.k = "local" -> Img(t.name, slug, t.name, NoUrl)
      [] t.k = "wext" ->
            IF t.url \in DOMAIN u2l
            THEN Img("alt:" \o u2l[t.url], slug, u2l[t.url], NoUrl)
            ELSE Img("alt:" \o t.url.path, <<>>, "", t.url)
      [] t.k = "mext" ->
            IF t.url \in DOMAIN u2l
            THEN Img(t.name, slug, u2l[t.url], NoUrl)
            ELSE Img(t.name, <<>>, "", t.url)
      [] OTHER -> Prose

transformContent(body, slug, u2l) ==
    [n \in 1..Len(body) |-> transformToken(body[n], slug, u2l)]

\* ------------------------------------------------------------- processPost
Empty == [u \in {} |-> ""]
SlugOf(file) == generateSlug(file, vault[file].slug)
CurFile == fileList[i]
CurDoc == vault[CurFile]
CurSlug == SlugOf(CurFile)
CurUrls == extractExternalUrls(CurDoc.body)

\* String.prototype.trim, on the frontmatter values used
trim(s) == IF s = "  " THEN "" ELSE s

\* a faulty variant: the first in-body image is preferred to the frontmatter one
heroImageOf_BodyFirst(doc) ==
    LET images == extractImages(doc.body)
    IN  IF images # <<>> THEN images[1] ELSE doc.heroImage

\* lines 388-390, 417-420: the frontmatter heroImage if set and not blank, else
\* the first in-body image
heroImageOf(doc) ==
    LET images == extractImages(doc.body)
    IN  IF doc.heroImage # "" /\ trim(doc.heroImage) # "" THEN doc.heroImage
        ELSE IF images # <<>> THEN images[1] ELSE ""

\* a faulty variant: the frontmatter date is ignored
pubDateOf_AlwaysToday(doc, day) == day

\* lines 402-415: the frontmatter pubDate (or date), else the current day
pubDateOf(doc, day) == IF doc.dated THEN "2024-05-01" ELSE day

\* lines 422-474: the index document processPost writes
mdxContent(file, doc, slug, u2l, day) ==
    LET hero == heroImageOf(doc)
    IN  [keys |-> {"title", "description", "pubDate", "heroAlt", "tags", "featured", "draft"}
                    \cup (IF hero # "" THEN {"heroImage"} ELSE {}),
         title |-> file,
         pubDate |-> pubDateOf(doc, day),
         heroImage |-> IF hero # "" THEN [dir |-> slug, name |-> hero] ELSE NoPath,
         featured |-> FALSE,
         draft |-> FALSE,
         body |-> transformContent(doc.body, slug, u2l)]

\* lines 442-455: the images copied, in order, until a copy throws.
\* copyImage returns false for a missing source and throws when copyFileSync does.
toCopy(doc) ==
    LET images == extractImages(doc.body)
        hero == heroImageOf(doc)
    IN  IF hero # "" /\ hero \notin SeqToSet(images) THEN Append(images, hero) ELSE images

\* a faulty variant: nothing is copied
copyImages_CopiesNothing(names, slug, acc) == acc

RECURSIVE copyImages(_, _, _)
copyImages(names, slug, acc) ==
    IF names = <<>> THEN acc
    ELSE LET n == Head(names)
         IN  IF n \notin DOMAIN srcImages THEN copyImages(Tail(names), slug, acc)
             ELSE IF srcImages[n] = "directory"
                  THEN [acc EXCEPT !.dirs = @ \cup {slug}, !.threw = TRUE]
                  ELSE copyImages(Tail(names), slug,
                           [acc EXCEPT !.dirs = @ \cup {slug},
                                       !.files = WriteFile(@, slug, n, srcImages[n]),
                                       !.wrote = @ \cup {[tree |-> "assets", dir |-> slug, name |-> n]}])

\* ------------------------------------------------------------ downloadImage
\* The Location header of a redirect response
NoLoc == [form |-> "", url |-> NoUrl, ref |-> ""]
HttpLoc(u) == [form |-> "http-url", url |-> u, ref |-> ""]       \* Location: https://b/x
RelLoc(r) == [form |-> "relative", url |-> NoUrl, ref |-> r]      \* Location: y
OtherLoc == [form |-> "other-scheme", url |-> NoUrl, ref |-> ""]  \* Location: ftp://b/x
Locations == {HttpLoc(U3), RelLoc("y"), RelLoc("http-y"), OtherLoc}

\* line 95: redirectUrl.startsWith('http')
startsWithHttp(loc) ==
    loc.form = "http-url" \/ (loc.form = "relative" /\ loc.ref = "http-y")

\* lines 95-98: the URL the recursive call is made with; NoUrl stands for a text
\* protocol.get cannot request (not a URL, or not an http(s) one)
absoluteRedirect(loc, url) ==
    IF startsWithHttp(loc)
    THEN IF loc.form = "http-url" THEN loc.url ELSE NoUrl
    ELSE IF loc.form = "relative" THEN ResolveRelative(loc.ref, url) ELSE NoUrl

Fetching == fetch # NoFetch /\ pc = "download"
\* the remote content is the same for the whole history: a download of a URL
\* that ended one way ends that way again
Seen(class) == outcome[CurUrls[k]] \in {"unknown", class}

\* a faulty variant: the cache is written whatever the download returned
Settle_CachesFailures(class, success) ==
    /\ outcome' = [outcome EXCEPT ![CurUrls[k]] = class]
    /\ fetch' = NoFetch
    /\ k' = k + 1
    /\ urlToLocal' = IF success
                        THEN (CurUrls[k] :> generateLocalFilename(CurUrls[k])) @@ urlToLocal
                        ELSE urlToLocal
    /\ downloadedImages' = (CurUrls[k] :> generateLocalFilename(CurUrls[k])) @@ downloadedImages
    /\ returned' = [returned EXCEPT ![CurUrls[k]] = Append(@, success)]

\* lines 184-189: the caller's continuation once the promise resolves
Settle(class, success) ==
    /\ outcome' = [outcome EXCEPT ![CurUrls[k]] = class]
    /\ fetch' = NoFetch
    /\ k' = k + 1
    /\ urlToLocal' = IF success
                        THEN (CurUrls[k] :> generateLocalFilename(CurUrls[k])) @@ urlToLocal
                        ELSE urlToLocal
    /\ downloadedImages' = IF success
                              THEN (CurUrls[k] :> generateLocalFilename(CurUrls[k])) @@ downloadedImages
                              ELSE downloadedImages
    /\ returned' = [returned EXCEPT ![CurUrls[k]] = Append(@, success)]

NotSync == UNCHANGED <<watchVars, catVars, callVars>>
FetchFrame == /\ UNCHANGED <<vault, files, srcImages, today, run, pc, fileList, i, processed,
                             errors, outDirs, outFiles, assetDirs, attempts, prevOut, warned, publishedDir>>
              /\ NotSync
NoWrite == UNCHANGED <<assetFiles, written, unlinkPending, late>>
AssetMark(path) == [tree |-> "assets", dir |-> path.dir, name |-> path.name]
\* the body the chain started at a URL ends with
BodyOf(url) == "body:" \o url.host \o "/" \o url.path

\* a transfer that is still open after the promise of its download resolved:
\* the response of a request nothing destroyed (stalled), or the recursive call
\* of a redirect whose first request timed out (child)
Stalled(dest) == [kind |-> "stalled", dest |-> dest, body |-> ""]
Child(dest, body) == [kind |-> "child", dest |-> dest, body |-> body]

\* lines 103-107: a terminal status other than 200
RespondNon200 ==
    /\ Fetching /\ Seen("fail")
    /\ Settle("fail", FALSE) /\ NoWrite /\ FetchFrame

\* lines 91-93, 103-107: a redirect status with no Location header
RespondRedirectNoLocation ==
    /\ Fetching /\ Seen("fail")
    /\ Settle("fail", FALSE) /\ NoWrite /\ FetchFrame

\* lines 124-127
RequestError ==
    /\ Fetching /\ Seen("fail")
    /\ Settle("fail", FALSE) /\ NoWrite /\ FetchFrame

\* lines 129-133
RequestTimeout ==
    /\ Fetching /\ Seen("fail")
    /\ Settle("fail", FALSE) /\ NoWrite /\ FetchFrame

\* lines 109-115: 200, the body is piped to the destination and the stream finishes
Respond200 ==
    /\ Fetching /\ Seen("ok")
    /\ assetFiles' = WriteFile(assetFiles, fetch.dest.dir, fetch.dest.name, BodyOf(CurUrls[k]))
    /\ written' = written \cup {AssetMark(fetch.dest)}
    /\ Settle("ok", TRUE) /\ UNCHANGED <<unlinkPending, late>> /\ FetchFrame

\* lines 109-110, 117-121: 200, then the write stream fails; the unlink is issued
\* (it completes later) and the promise resolves false. Nothing destroys the
\* request: the response, no longer piped, stays open until its own timeout
WriteStreamError ==
    /\ Fetching /\ Seen("writeError")
    /\ assetFiles' = WriteFile(assetFiles, fetch.dest.dir, fetch.dest.name, "partial")
    /\ written' = written \cup {AssetMark(fetch.dest)}
    /\ unlinkPending' = unlinkPending \cup {fetch.dest}
    /\ late' = late \cup {Stalled(fetch.dest)}
    /\ Settle("writeError", FALSE) /\ FetchFrame

\* lines 109-110, then 124-133: 200, the body starts streaming, then the request
\* errors or times out; nothing removes the part already written
BodyInterrupted ==
    /\ Fetching /\ Seen("interrupted")
    /\ assetFiles' = WriteFile(assetFiles, fetch.dest.dir, fetch.dest.name, "partial")
    /\ written' = written \cup {AssetMark(fetch.dest)}
    /\ Settle("interrupted", FALSE) /\ UNCHANGED <<unlinkPending, late>> /\ FetchFrame

\* lines 91-100: 301, 302, 307 or 308 with a Location header. The recursive call
\* either issues the next request or, when protocol.get throws on its argument,
\* rejects: nothing handles the rejection and the outer promise never resolves.
RespondRedirect(loc) ==
    /\ Fetching
    /\ IF absoluteRedirect(loc, fetch.url) \in URLS
       THEN /\ fetch' = [url |-> absoluteRedirect(loc, fetch.url), dest |-> fetch.dest,
                         redirected |-> TRUE]
            /\ pc' = pc
       ELSE /\ fetch' = fetch
            /\ pc' = "crashed"
    /\ UNCHANGED <<vault, files, srcImages, today, outcome, run, fileList, i, k, processed,
                   errors, urlToLocal, downloadedImages, unlinkPending, outDirs, outFiles,
                   assetDirs, assetFiles, attempts, written, prevOut,
                   warned, late, publishedDir, returned>>
    /\ NotSync

\* lines 98, 129-133: the response of the redirected request is never consumed,
\* so its socket stays idle while the recursive call downloads; when the 30 s
\* timeout of that first request fires, its handler resolves the promise false
\* and the recursive call goes on by itself, to end with the body at the
\* destination
RedirectedRequestTimeout ==
    /\ Fetching /\ fetch.redirected
    /\ Seen("late")
    /\ late' = late \cup {Child(fetch.dest, BodyOf(CurUrls[k]))}
    /\ Settle("late", FALSE)
    /\ UNCHANGED <<assetFiles, written, unlinkPending>> /\ FetchFrame

\* an open transfer ends: a stalled response is destroyed by its timeout (lines
\* 129-133), a recursive call finishes (lines 112-115)
LateEnd ==
    /\ \E d \in late :
          /\ late' = late \ {d}
          /\ IF d.kind = "child"
             THEN /\ assetFiles' = WriteFile(assetFiles, d.dest.dir, d.dest.name, d.body)
                  /\ written' = written \cup {AssetMark(d.dest)}
             ELSE UNCHANGED <<assetFiles, written>>
    /\ UNCHANGED <<vault, files, srcImages, today, outcome, run, pc, fileList, i, k, processed,
                   errors, urlToLocal, downloadedImages, fetch, unlinkPending, outDirs,
                   outFiles, assetDirs, attempts, prevOut, warned, publishedDir, returned>>
    /\ NotSync

\* the callback of fs.unlink at line 118
UnlinkComplete ==
    /\ \E p \in unlinkPending :
          /\ assetFiles' = RemoveFile(assetFiles, p)
          /\ unlinkPending' = unlinkPending \ {p}
    /\ UNCHANGED <<vault, files, srcImages, today, outcome, run, pc, fileList, i, k, processed,
                   errors, urlToLocal, downloadedImages, fetch, outDirs, outFiles,
                   assetDirs, attempts, written, prevOut,
                   warned, late, publishedDir, returned>>
    /\ NotSync

\* ---------------------------------------------------------------- syncContent
\* a faulty variant: the catch block logs the error and does not count it
catchError_NotCounted == errors' = errors

\* lines 522-525: the catch block of the loop
catchError == errors' = errors + 1

ZeroAttempts == [f \in DOMAIN vault |-> 0]

\* lines 502-515: wipe both output roots, list the vault, zero the counters
syncContentStart ==
    /\ pc = "start"
    /\ outDirs' = cleanOutputDirs.outDirs
    /\ outFiles' = cleanOutputDirs.outFiles
    /\ assetDirs' = cleanOutputDirs.assetDirs
    /\ assetFiles' = cleanOutputDirs.assetFiles
    /\ fileList' = files
    /\ processed' = 0 /\ errors' = 0 /\ i' = 1
    /\ pc' = "loop"
    /\ UNCHANGED <<vault, files, srcImages, today, outcome, run, k, urlToLocal,
                   downloadedImages, fetch, unlinkPending, attempts, written, prevOut,
                   warned, late, publishedDir, returned>>
    /\ NotSync

\* lines 517-520 and 375-394 up to the first download: read and parse the file
\* (a throw is caught at 522-525), compute the slug, create the image directory
processPostBegin ==
    /\ pc = "loop" /\ i <= Len(fileList)
    /\ attempts' = [attempts EXCEPT ![CurFile] = @ + 1]
    /\ IF ~CurDoc.readable
       THEN /\ catchError
            /\ i' = i + 1
            /\ UNCHANGED <<pc, k, urlToLocal, assetDirs>>
       ELSE /\ pc' = "download"
            /\ k' = 1
            /\ urlToLocal' = Empty
            /\ assetDirs' = IF CurUrls # <<>> THEN assetDirs \cup {CurSlug} ELSE assetDirs
            /\ UNCHANGED <<errors, i>>
    /\ UNCHANGED <<vault, files, srcImages, today, outcome, run, fileList, processed,
                   downloadedImages, fetch, unlinkPending, outDirs, outFiles, assetFiles,
                   written, prevOut,
                   warned, late, publishedDir, returned>>
    /\ NotSync

\* lines 174-179: the URL is in the cache; no download, no file
downloadCached ==
    /\ pc = "download" /\ fetch = NoFetch /\ k <= Len(CurUrls)
    /\ CurUrls[k] \in DOMAIN downloadedImages
    /\ urlToLocal' = (CurUrls[k] :> downloadedImages[CurUrls[k]]) @@ urlToLocal
    /\ k' = k + 1
    /\ UNCHANGED <<vault, files, srcImages, today, outcome, run, pc, fileList, i, processed,
                   errors, downloadedImages, fetch, unlinkPending, outDirs, outFiles,
                   assetDirs, assetFiles, attempts, written, prevOut,
                   warned, late, publishedDir, returned>>
    /\ NotSync

\* lines 181-184 and 80-89: the request is issued
downloadImageStart ==
    /\ pc = "download" /\ fetch = NoFetch /\ k <= Len(CurUrls)
    /\ CurUrls[k] \notin DOMAIN downloadedImages
    /\ CurUrls[k] \in URLS
    /\ fetch' = [url |-> CurUrls[k],
                 dest |-> [dir |-> CurSlug, name |-> generateLocalFilename(CurUrls[k])],
                 redirected |-> FALSE]
    /\ UNCHANGED <<vault, files, srcImages, today, outcome, run, pc, fileList, i, k, processed,
                   errors, urlToLocal, downloadedImages, unlinkPending, outDirs, outFiles,
                   assetDirs, assetFiles, attempts, written, prevOut,
                   warned, late, publishedDir, returned>>
    /\ NotSync

\* lines 181 and 54, then 522-525: new URL(url) throws on a text that is not a
\* URL; nothing in processPost catches it, the loop does
generateLocalFilenameThrows ==
    /\ pc = "download" /\ fetch = NoFetch /\ k <= Len(CurUrls)
    /\ CurUrls[k] \notin DOMAIN downloadedImages
    /\ CurUrls[k] \notin URLS
    /\ catchError
    /\ i' = i + 1
    /\ pc' = "loop"
    /\ k' = 0 /\ urlToLocal' = Empty
    /\ UNCHANGED <<vault, files, srcImages, today, outcome, run, fileList, processed,
                   downloadedImages, fetch, unlinkPending, outDirs, outFiles, assetDirs,
                   assetFiles, attempts, written, prevOut, warned, late, publishedDir,
                   returned>>
    /\ NotSync

\* lines 437, 477: path.join(CONFIG.outputDir, slug) normalizes "..", so a slug
\* that begins with "../" names a directory outside the output root
postDirTree(slug) ==
    IF Len(slug) >= 3 /\ SubSeq(slug, 1, 3) = <<".", ".", "/">>
    THEN IF slug = ToPublished THEN "published" ELSE "elsewhere"
    ELSE "docs"

\* lines 396-485, then 521 or 522-525: transform, create the post directory, copy
\* the images, warn when there is no hero image, write index.mdx; a throw of
\* copyFileSync is caught by the loop
processPostFinish ==
    /\ pc = "download" /\ fetch = NoFetch /\ k > Len(CurUrls)
    /\ LET copied == copyImages(toCopy(CurDoc), CurSlug,
                         [dirs |-> assetDirs, files |-> assetFiles, wrote |-> {}, threw |-> FALSE])
           tree == postDirTree(CurSlug)
           mdx == mdxContent(CurFile, CurDoc, CurSlug, urlToLocal, today)
       IN  /\ outDirs' = IF tree = "docs" THEN outDirs \cup {CurSlug} ELSE outDirs
           /\ assetDirs' = copied.dirs
           /\ assetFiles' = copied.files
           /\ IF copied.threw
              THEN /\ catchError
                   /\ written' = written \cup copied.wrote
                   /\ UNCHANGED <<processed, outFiles, warned, publishedDir>>
              ELSE /\ processed' = processed + 1
                   /\ warned' = IF heroImageOf(CurDoc) = "" THEN warned \cup {CurFile} ELSE warned
                   /\ outFiles' = IF tree = "docs"
                                  THEN WriteFile(outFiles, CurSlug, "index.mdx", mdx)
                                  ELSE outFiles
                   /\ publishedDir' =
                          IF tree = "published"
                          THEN {f \in publishedDir : f.name # "index.mdx"}
                                   \cup {[name |-> "index.mdx", content |-> mdx]}
                          ELSE publishedDir
                   /\ written' = written \cup copied.wrote
                                     \cup {[tree |-> tree, dir |-> CurSlug, name |-> "index.mdx"]}
                   /\ UNCHANGED errors
    /\ i' = i + 1
    /\ pc' = "loop"
    /\ k' = 0 /\ urlToLocal' = Empty
    /\ UNCHANGED <<vault, files, srcImages, today, outcome, run, fileList, downloadedImages,
                   fetch, unlinkPending, attempts, prevOut, late, returned>>
    /\ NotSync

\* lines 528-530: the summary line
syncContentSummary ==
    /\ pc = "loop" /\ i > Len(fileList)
    /\ pc' = "done"
    /\ UNCHANGED <<vault, files, srcImages, today, outcome, run, fileList, i, k, processed,
                   errors, urlToLocal, downloadedImages, fetch, unlinkPending, outDirs,
                   outFiles, assetDirs, assetFiles, attempts, written, prevOut,
                   warned, late, publishedDir, returned>>
    /\ NotSync

Trees == [outDirs |-> outDirs, outFiles |-> outFiles,
          assetDirs |-> assetDirs, assetFiles |-> assetFiles]
NoTrees == [outDirs |-> {}, outFiles |-> {}, assetDirs |-> {}, assetFiles |-> {}]
Exited == pc = "done" /\ unlinkPending = {} /\ late = {}

\* the script is run again on the same vault: a new process (line 48 runs again,
\* so the cache is empty), possibly on a later day
RunAgain ==
    /\ Exited /\ run = "first"
    /\ run' = "rerun"
    /\ pc' = "start"
    /\ prevOut' = [trees |-> Trees, day |-> today]
    /\ \E d \in Days : today' = d
    /\ downloadedImages' = Empty
    /\ fileList' = <<>> /\ i' = 0 /\ processed' = 0 /\ errors' = 0
    /\ attempts' = ZeroAttempts
    /\ written' = {}
    /\ warned' = {}
    /\ UNCHANGED <<vault, files, srcImages, outcome, k, urlToLocal, fetch, unlinkPending,
                   outDirs, outFiles, assetDirs, assetFiles, late, publishedDir>>
    /\ returned' = NoneReturned
    /\ NotSync

\* ------------------------------------------------------------- specifications
\* what an earlier run left in the output roots
StaleDir == <<"o", "l", "d">>
StaleTrees ==
    [outDirs |-> {StaleDir},
     outFiles |-> {[dir |-> StaleDir, name |-> "index.mdx", content |-> "stale"]},
     assetDirs |-> {StaleDir},
     assetFiles |-> {[dir |-> StaleDir, name |-> "old.jpg", content |-> "stale"]}]

\* readdirSync lists a directory in name order
ListingOrder == << <<"A", ".", "m", "d">>, <<"B", "0", ".", "m", "d">>, <<"a", ".", "m", "d">> >>
Listing(S) == SelectSeq(ListingOrder, LAMBDA f : f \in S)

WatchIdle ==
    /\ syncProcess = 0 /\ debounceTimer = 0 /\ procs = <<>> /\ mdWatcher = "off"
    /\ timers = {} /\ changes = 0
    /\ quiet = 0 /\ burstSpawns = 0 /\ fresh = 0 /\ served = FALSE
NoResult == [done |-> FALSE, value |-> <<>>]
CallIdle == arg = <<>> /\ result = NoResult
FolderIdle ==
    /\ folder = Empty /\ fmFiles = <<>> /\ fmIndex = 0 /\ fmRuns = 0
    /\ original = Empty /\ reads = Empty
CategoryIdle ==
    /\ fmInput = [category |-> "", tags |-> [present |-> FALSE, list |-> <<>>]] /\ fmCategory = ""
    /\ FolderIdle
    /\ CallIdle

SyncInit ==
    /\ files \in {Listing(S) : S \in {T \in SUBSET FILENAMES : Cardinality(T) <= MaxFiles}}
    /\ vault \in [SeqToSet(files) -> Documents]
    /\ srcImages = SourceImages
    /\ today = "2026-11-02"
    /\ outcome = [u \in URLS |-> "unknown"]
    /\ run = "first" /\ pc = "start"
    /\ fileList = <<>> /\ i = 0 /\ k = 0 /\ processed = 0 /\ errors = 0
    /\ urlToLocal = Empty /\ downloadedImages = Empty
    /\ fetch = NoFetch /\ unlinkPending = {}
    /\ outDirs = StaleTrees.outDirs /\ outFiles = StaleTrees.outFiles
    /\ assetDirs = StaleTrees.assetDirs /\ assetFiles = StaleTrees.assetFiles
    /\ attempts = [f \in SeqToSet(files) |-> 0]
    /\ written = {}
    /\ prevOut = [trees |-> NoTrees, day |-> ""]
    /\ warned = {} /\ late = {} /\ publishedDir = {}
    /\ returned = NoneReturned

Init == SyncInit /\ WatchIdle /\ CategoryIdle

Next ==
    \/ syncContentStart
    \/ processPostBegin
    \/ downloadCached
    \/ downloadImageStart
    \/ generateLocalFilenameThrows
    \/ RespondNon200
    \/ RespondRedirectNoLocation
    \/ RequestError
    \/ RequestTimeout
    \/ Respond200
    \/ WriteStreamError
    \/ BodyInterrupted
    \/ \E loc \in Locations : RespondRedirect(loc)
    \/ UnlinkComplete
    \/ RedirectedRequestTimeout
    \/ LateEnd
    \/ processPostFinish
    \/ syncContentSummary
    \/ RunAgain

Spec == Init /\ [][Next]_vars
FairSpec == Spec /\ WF_vars(Next)

\* ================================================================= watch.ts
\* procs[p] is the state of the p-th spawned sync process: "running", "killed"
\* (kill() has sent the signal, the close event has not come) or "closed".
\* syncProcess is 0 for null, else the index of a process.
\* debounceTimer is 0 for null, else the id of the last timer set; the timer is
\* pending while it is in timers, where left is the time before it is due.
\* Time is counted in units of 250 ms.
DEBOUNCE_MS == 2              \* line 9: 500 ms
SyncIdle ==
    /\ files = <<>> /\ vault = Empty /\ srcImages = SourceImages /\ today = "2026-11-02"
    /\ outcome = [u \in URLS |-> "unknown"]
    /\ run = "first" /\ pc = "off"
    /\ fileList = <<>> /\ i = 0 /\ k = 0 /\ processed = 0 /\ errors = 0
    /\ urlToLocal = Empty /\ downloadedImages = Empty
    /\ fetch = NoFetch /\ unlinkPending = {}
    /\ outDirs = {} /\ outFiles = {} /\ assetDirs = {} /\ assetFiles = {}
    /\ attempts = Empty /\ written = {}
    /\ prevOut = [trees |-> NoTrees, day |-> ""]
    /\ warned = {} /\ late = {} /\ publishedDir = {}
    /\ returned = NoneReturned

\* ChildProcess.kill(): the signal is sent; a process that has closed is not touched
kill(p) == [procs EXCEPT ![p] = IF @ = "running" THEN "killed" ELSE @]

\* a faulty variant: the pending timer is not cancelled
clearTimeout_Nothing(ts, id) == ts

\* lines 13-15: clearTimeout(debounceTimer); a timer that has fired is not in ts
clearTimeout(ts, id) == {t \in ts : t.id # id}

\* a faulty variant: no timer is set
setTimeout_Nothing(ts, id) == ts

\* lines 23, 39: setTimeout(callback, DEBOUNCE_MS)
setTimeout(ts, id) == ts \cup {[id |-> id, left |-> DEBOUNCE_MS]}

\* a timer is due: its callback runs before any later watcher event is handled
\* and before more time passes
TimerDue == \E t \in timers : t.left = 0

\* lines 75-79 and 11-22, 39: a watcher event; handleChange calls runSync, which
\* runs up to the setTimeout call
runSync ==
    /\ mdWatcher = "watching" /\ changes < MaxChanges /\ ~TimerDue
    /\ changes' = changes + 1
    /\ timers' = setTimeout(IF debounceTimer # 0
                             THEN clearTimeout(timers, debounceTimer)
                             ELSE timers,
                            changes + 1)
    /\ debounceTimer' = changes + 1
    /\ procs' = IF syncProcess # 0 THEN kill(syncProcess) ELSE procs
    /\ syncProcess' = 0
    /\ quiet' = 0
    /\ burstSpawns' = IF changes = 0 \/ quiet >= DEBOUNCE_MS THEN 0 ELSE burstSpawns
    /\ fresh' = 0 /\ served' = FALSE
    /\ UNCHANGED <<mdWatcher, syncVars, catVars, callVars>>

\* 250 ms pass
tick ==
    /\ mdWatcher = "watching" /\ ~TimerDue
    /\ timers # {} \/ quiet < DEBOUNCE_MS
    /\ timers' = {[t EXCEPT !.left = @ - 1] : t \in timers}
    /\ quiet' = IF quiet < DEBOUNCE_MS THEN quiet + 1 ELSE quiet
    /\ UNCHANGED <<syncProcess, debounceTimer, procs, mdWatcher, changes, burstSpawns,
                   fresh, served, syncVars, catVars, callVars>>

\* lines 23-30: a timer fires and the sync process is spawned
timerFires ==
    /\ mdWatcher = "watching"
    /\ Len(procs) < MaxProcs
    /\ \E t \in timers : t.left = 0 /\ timers' = timers \ {t}
    /\ procs' = Append(procs, "running")
    /\ syncProcess' = Len(procs) + 1
    /\ burstSpawns' = burstSpawns + 1
    /\ fresh' = Len(procs) + 1
    /\ UNCHANGED <<debounceTimer, mdWatcher, changes, quiet, served,
                   syncVars, catVars, callVars>>

\* lines 31-38: a child ends (by itself, or from the signal) and its close
\* handler runs
onClose(p) ==
    /\ p \in 1..Len(procs) /\ procs[p] \in {"running", "killed"}
    /\ procs' = [procs EXCEPT ![p] = "closed"]
    /\ syncProcess' = IF mdWatcher = "watching" THEN 0 ELSE syncProcess
    /\ served' = (served \/ (p = fresh /\ procs[p] = "running"))
    /\ UNCHANGED <<debounceTimer, mdWatcher, timers, changes, quiet, burstSpawns, fresh,
                   syncVars, catVars, callVars>>

\* lines 92-100: SIGINT closes the watchers, kills the current child and exits
onSigint ==
    /\ mdWatcher = "watching"
    /\ mdWatcher' = "closed"
    /\ procs' = IF syncProcess # 0 THEN kill(syncProcess) ELSE procs
    /\ timers' = {}
    /\ UNCHANGED <<syncProcess, debounceTimer, changes, quiet, burstSpawns, fresh, served,
                   syncVars, catVars, callVars>>

\* line 103: startWatching has run
WatchInit ==
    /\ syncProcess = 0 /\ debounceTimer = 0 /\ procs = <<>> /\ mdWatcher = "watching"
    /\ timers = {} /\ changes = 0
    /\ quiet = 0 /\ burstSpawns = 0 /\ fresh = 0 /\ served = FALSE
    /\ SyncIdle /\ CategoryIdle

WatchNext ==
    \/ runSync
    \/ tick
    \/ timerFires
    \/ \E p \in 1..MaxProcs : onClose(p)
    \/ onSigint

WatchSpec == WatchInit /\ [][WatchNext]_vars

\* timers fire when due and child processes end
WatchFairSpec ==
    /\ WatchSpec
    /\ WF_vars(tick)
    /\ WF_vars(timerFires)
    /\ \A p \in 1..MaxProcs : WF_vars(onClose(p))

\* ================================== update-obsidian-frontmatter.ts: mapCategory
CATEGORY_MAP ==
    [t \in {"Travels", "Travel", "Tech", "Technology", "Book", "Books", "Philosophy",
            "AI Generated"} |->
        CASE t \in {"Travels", "Travel"} -> "travels"
          [] t \in {"Tech", "Technology", "AI Generated"} -> "tech"
          [] t \in {"Book", "Books"} -> "books"
          [] OTHER -> "philosophy"]
VALID_CATEGORIES == {"travels", "tech", "books", "philosophy"}

RECURSIVE mapCategoryLoop(_)
\* lines 62-68
mapCategoryLoop(list) ==
    IF list = <<>> THEN "tech"
    ELSE IF Head(list) \in DOMAIN CATEGORY_MAP /\ CATEGORY_MAP[Head(list)] \in VALID_CATEGORIES
         THEN CATEGORY_MAP[Head(list)]
         ELSE mapCategoryLoop(Tail(list))

\* a faulty variant: only the first tag is looked up
mapCategory_FirstTagOnly(tags) ==
    IF ~tags.present \/ Len(tags.list) = 0 THEN "tech"
    ELSE IF tags.list[1] \in DOMAIN CATEGORY_MAP THEN CATEGORY_MAP[tags.list[1]] ELSE "tech"

\* lines 58-69; tags is [present, list]: the tags key may be absent
mapCategory(tags) ==
    IF ~tags.present \/ Len(tags.list) = 0 THEN "tech" ELSE mapCategoryLoop(tags.list)

\* line 189: category: fm.category || mapCategory(fm.tags)
newFmCategory(fm) == IF fm.category # "" THEN fm.category ELSE mapCategory(fm.tags)

InputTags == {"Family", "Travel", "Books", "AI Generated"}
TagLists == UNION {[1..n -> InputTags] : n \in 0..MaxTags}

CategoryInit ==
    /\ fmInput \in [category : {"", "books"},
                    tags : [present : {TRUE}, list : TagLists]
                             \cup {[present |-> FALSE, list |-> <<>>]}]
    /\ fmCategory = ""
    /\ FolderIdle
    /\ WatchIdle
    /\ SyncIdle /\ CallIdle

\* processFile, line 189
processFileCategory ==
    /\ fmCategory = ""
    /\ fmCategory' = newFmCategory(fmInput)
    /\ UNCHANGED <<fmInput, folder, fmFiles, fmIndex, fmRuns, original, reads,
                   syncVars, watchVars, callVars>>

CategoryNext == processFileCategory

CategorySpec == CategoryInit /\ [][CategoryNext]_vars

\* ============================ update-obsidian-frontmatter.ts: the .bak backups
\* A file content is [heading, fm, body]: whether the text opens with a heading,
\* the metadata block it has ("none", "legacy", "full" or "malformed", a block
\* the YAML parser rejects), and the body text.
Content(heading, fm) == [heading |-> heading, fm |-> fm, body |-> "text"]
Contents == { Content(TRUE, "legacy"), Content(FALSE, "legacy"), Content(FALSE, "none"),
              Content(FALSE, "malformed") }

\* line 168: filePath + ".bak"
backupPathOf(filePath) == filePath \o <<".", "b", "a", "k">>

\* line 218: f.endsWith(".md")
endsWithMd(f) == Len(f) >= 3 /\ SubSeq(f, Len(f) - 2, Len(f)) = <<".", "m", "d">>

\* readdirSync lists the folder in name order
FolderOrder ==
    << <<"A", ".", "m", "d">>, backupPathOf(<<"A", ".", "m", "d">>),
       <<"B", "0", ".", "m", "d">>, backupPathOf(<<"B", "0", ".", "m", "d">>),
       <<"a", ".", "m", "d">>, backupPathOf(<<"a", ".", "m", "d">>) >>
readdirSync(dir) == SelectSeq(FolderOrder, LAMBDA f : f \in DOMAIN dir)

\* a faulty variant: the content is always read from the file itself
sourcePathOf_AlwaysFile(filePath, dir) == filePath

\* lines 171-175: the backup when there is one, else the file
sourcePathOf(filePath, dir) ==
    IF backupPathOf(filePath) \in DOMAIN dir THEN backupPathOf(filePath) ELSE filePath

\* lines 180-201: the text written back has the full metadata block, no leading
\* heading, and the body
newContent(fileContent) == [heading |-> FALSE, fm |-> "full", body |-> fileContent.body]

BackupInit ==
    /\ folder \in UNION {[S -> Contents] :
                            S \in {T \in SUBSET FILENAMES : T # {} /\ Cardinality(T) <= MaxFiles}}
    /\ fmFiles = <<>> /\ fmIndex = 0 /\ fmRuns = 0
    /\ original = folder
    /\ reads = [f \in DOMAIN folder |-> <<>>]
    /\ fmInput = [category |-> "", tags |-> [present |-> FALSE, list |-> <<>>]] /\ fmCategory = ""
    /\ SyncIdle /\ WatchIdle /\ CallIdle

\* lines 240-245 and 210-222: the utility is run; processFolder lists the folder
processFolder ==
    /\ fmIndex = 0 /\ fmRuns < MaxRuns
    /\ fmRuns' = fmRuns + 1
    /\ fmFiles' = SelectSeq(readdirSync(folder), endsWithMd)
    /\ fmIndex' = 1
    /\ UNCHANGED <<fmInput, fmCategory, folder, original, reads, syncVars, watchVars, callVars>>

\* lines 163-208, called at line 226: the content is read from the backup, or
\* from the file, which is then copied to the backup; the file is overwritten
\* unless the parser throws (caught at line 205)
processFile ==
    /\ fmIndex \in 1..Len(fmFiles)
    /\ LET filePath == fmFiles[fmIndex]
           backupPath == backupPathOf(filePath)
           source == sourcePathOf(filePath, folder)
           fileContent == folder[source]
           backedUp == IF backupPath \in DOMAIN folder
                       THEN folder
                       ELSE (backupPath :> folder[filePath]) @@ folder
       IN  /\ folder' = IF fileContent.fm = "malformed"
                         THEN backedUp
                         ELSE [backedUp EXCEPT ![filePath] = newContent(fileContent)]
           /\ reads' = [reads EXCEPT ![filePath] = Append(@, source)]
    /\ fmIndex' = fmIndex + 1
    /\ UNCHANGED <<fmInput, fmCategory, fmFiles, fmRuns, original, syncVars, watchVars, callVars>>

\* lines 237, 247: the loop is over and the utility exits
processFolderEnd ==
    /\ fmIndex > Len(fmFiles) /\ fmIndex # 0
    /\ fmIndex' = 0 /\ fmFiles' = <<>>
    /\ UNCHANGED <<fmInput, fmCategory, folder, fmRuns, original, reads,
                   syncVars, watchVars, callVars>>

BackupNext ==
    \/ processFolder
    \/ processFile
    \/ processFolderEnd

BackupSpec == BackupInit /\ [][BackupNext]_vars

\* ======================================== sync-content.ts: one call of generateSlug
StemChars == {"A", "b", "0", " ", "."}
Stems == UNION {[1..n -> StemChars] : n \in 0..MaxStem}
FrontmatterSlugs == { <<>>, <<"M", "y", "-", "-", "P">> }

SyncOff == SyncIdle /\ WatchIdle
             /\ fmInput = [category |-> "", tags |-> [present |-> FALSE, list |-> <<>>]]
             /\ fmCategory = ""
             /\ FolderIdle

SlugInit ==
    /\ arg \in [stem : Stems, frontmatterSlug : FrontmatterSlugs]
    /\ result = NoResult
    /\ SyncOff

\* line 385: generateSlug(filename, fm.slug); the filename ends in ".md" (line 510)
callGenerateSlug ==
    /\ ~result.done
    /\ result' = [done |-> TRUE,
                  value |-> generateSlug(arg.stem \o <<".", "m", "d">>, arg.frontmatterSlug)]
    /\ UNCHANGED <<arg, syncVars, watchVars, catVars>>

SlugNext == callGenerateSlug

SlugSpec == SlugInit /\ [][SlugNext]_vars

\* =================================== sync-content.ts: one call of escapeCurlyBraces
\* A body is a sequence of lines (content.split('\n'), result.join('\n')), a
\* line a sequence of characters.
Tick == "BACKTICK"         \* the character U+0060
Backslash == "\\"

\* line.trim(), as far as startsWith looks: the leading white space is dropped
RECURSIVE trimStartLine(_)
trimStartLine(line) ==
    IF line # <<>> /\ Head(line) = " " THEN trimStartLine(Tail(line)) ELSE line

\* line 217: line.trim().startsWith(three backticks)
startsWithFence(line) ==
    LET t == trimStartLine(line)
    IN  Len(t) >= 3 /\ SubSeq(t, 1, 3) = <<Tick, Tick, Tick>>

\* where a match of the inline-code pattern (a backtick, one or more other
\* characters, a backtick) that begins at p ends, 0 when there is none
inlineCodeEnd(line, p) ==
    IF p + 2 <= Len(line) /\ line[p] = Tick /\ line[p + 1] # Tick
    THEN LET ticks == {q \in p + 2..Len(line) : line[q] = Tick}
         IN  IF ticks = {} THEN 0 ELSE CHOOSE q \in ticks : \A r \in ticks : q <= r
    ELSE 0

RECURSIVE splitInlineCode(_, _, _, _)
\* line 230: line.split(the inline-code pattern, captured): text, code, text, ..., text
splitInlineCode(line, p, text, acc) ==
    IF p > Len(line) THEN Append(acc, text)
    ELSE IF inlineCodeEnd(line, p) # 0
         THEN splitInlineCode(line, inlineCodeEnd(line, p) + 1, <<>>,
                              acc \o <<text, SubSeq(line, p, inlineCodeEnd(line, p))>>)
         ELSE splitInlineCode(line, p + 1, Append(text, line[p]), acc)

RECURSIVE replaceBraces(_)
\* lines 237-239: .replace(/\{/g, '\\{').replace(/\}/g, '\\}')
replaceBraces(seg) ==
    IF seg = <<>> THEN <<>>
    ELSE (IF Head(seg) \in {"{", "}"} THEN <<Backslash, Head(seg)>> ELSE <<Head(seg)>>)
             \o replaceBraces(Tail(seg))

\* a faulty variant: every segment is escaped, inline code too
escapeSegment_Always(seg) == replaceBraces(seg)

\* lines 231-240: the callback of segments.map
escapeSegment(seg) ==
    IF seg # <<>> /\ Head(seg) = Tick /\ seg[Len(seg)] = Tick THEN seg ELSE replaceBraces(seg)

RECURSIVE joinSegments(_)
joinSegments(segs) == IF segs = <<>> THEN <<>> ELSE Head(segs) \o joinSegments(Tail(segs))

\* lines 230-241: one line outside a code block
escapeLine(line) ==
    LET segments == splitInlineCode(line, 1, <<>>, <<>>)
    IN  joinSegments([n \in 1..Len(segments) |-> escapeSegment(segments[n])])

RECURSIVE escapeLines(_, _)
\* lines 215-242: the loop over the lines, with the inCodeBlock flag
escapeLines(lines, inCodeBlock) ==
    IF lines = <<>> THEN <<>>
    ELSE IF startsWithFence(Head(lines))
         THEN <<Head(lines)>> \o escapeLines(Tail(lines), ~inCodeBlock)
         ELSE IF inCodeBlock
              THEN <<Head(lines)>> \o escapeLines(Tail(lines), inCodeBlock)
              ELSE <<escapeLine(Head(lines))>> \o escapeLines(Tail(lines), inCodeBlock)

escapeCurlyBraces(content) == escapeLines(content, FALSE)

LineChars == {Tick, "{", "}", " "}
BodyLines == UNION {[1..n -> LineChars] : n \in 0..MaxLine}
FenceLines == { <<Tick, Tick, Tick>>, <<" ", Tick, Tick, Tick, "{">> }
Bodies ==
    {<<l>> : l \in BodyLines}
        \cup {<<f, l>> : f \in FenceLines, l \in BodyLines}
        \cup {<<f, l, g, l>> : f \in FenceLines, g \in FenceLines, l \in BodyLines}

EscapeInit ==
    /\ arg \in [content : Bodies]
    /\ result = NoResult
    /\ SyncOff

\* line 277: transformed = escapeCurlyBraces(transformed)
callEscapeCurlyBraces ==
    /\ ~result.done
    /\ result' = [done |-> TRUE, value |-> escapeCurlyBraces(arg.content)]
    /\ UNCHANGED <<arg, syncVars, watchVars, catVars>>

EscapeNext == callEscapeCurlyBraces

EscapeSpec == EscapeInit /\ [][EscapeNext]_vars

\* =================================== sync-content.ts: one call of parseObsidianFile
\* A document is a sequence of characters.
NL == "NEWLINE"             \* the character U+000A
IsSpace(c) == c \in {" ", NL}                \* \s
\* the last place of the run of white space that begins at p (p - 1: no run)
RECURSIVE spaceRunEnd(_, _)
spaceRunEnd(t, p) ==
    IF p <= Len(t) /\ IsSpace(t[p]) THEN spaceRunEnd(t, p + 1) ELSE p - 1
\* the last place of the run of characters other than the line break that
\* begins at p (p - 1: no run)
RECURSIVE lineRunEnd(_, _)
lineRunEnd(t, p) ==
    IF p <= Len(t) /\ t[p] # NL THEN lineRunEnd(t, p + 1) ELSE p - 1
RECURSIVE newlineRunEnd(_, _)
newlineRunEnd(t, p) ==
    IF p <= Len(t) /\ t[p] = NL THEN newlineRunEnd(t, p + 1) ELSE p - 1

NoMatch == [ok |-> FALSE, from |-> 0, to |-> 0]
\* a match of #\s+(.+) that begins at s, followed by a line break when
\* needNewline: \s+ takes the longest run of white space (line breaks included)
\* after which (.+) finds a character of a line; from..to is the captured group
headingAt(t, s, needNewline) ==
    IF s > Len(t) \/ t[s] # "#" THEN NoMatch
    ELSE LET ends == {e \in s + 1..spaceRunEnd(t, s + 1) :
                          /\ e + 1 <= Len(t) /\ t[e + 1] # NL
                          /\ needNewline => lineRunEnd(t, e + 1) + 1 <= Len(t)}
         IN  IF ends = {} THEN NoMatch
             ELSE LET e == CHOOSE x \in ends : \A y \in ends : y <= x
                  IN  [ok |-> TRUE, from |-> e + 1, to |-> lineRunEnd(t, e + 1)]

\* String.prototype.trimStart and trim
RECURSIVE trimStart(_)
trimStart(t) == IF t # <<>> /\ IsSpace(Head(t)) THEN trimStart(Tail(t)) ELSE t
RECURSIVE trimEnd(_)
trimEnd(t) ==
    IF t # <<>> /\ IsSpace(t[Len(t)]) THEN trimEnd(SubSeq(t, 1, Len(t) - 1)) ELSE t
trimText(t) == trimEnd(trimStart(t))

\* lines 364 and 369: content.replace(/^#\s+.+\n+/, ""), a heading at the very
\* start with the line breaks after it
stripLeadingHeading(t) ==
    LET m == headingAt(t, 1, TRUE)
    IN  IF m.ok THEN SubSeq(t, newlineRunEnd(t, m.to + 1) + 1, Len(t)) ELSE t

\* line 360: content.match(/^#\s+(.+)$/m), the first line that begins a match
firstHeading(t) ==
    LET starts == {s \in 1..Len(t) : (s = 1 \/ t[s - 1] = NL) /\ headingAt(t, s, FALSE).ok}
    IN  IF starts = {} THEN NoMatch
        ELSE headingAt(t, CHOOSE s \in starts : \A r \in starts : s <= r, FALSE)

\* line 354: matter(content) of gray-matter: a block opens with --- at offset
\* zero (not ----) and closes at the next line that begins with ---; the
\* content is what follows the closing line
Dashes == <<"-", "-", "-">>
hasMatter(t) ==
    Len(t) >= 3 /\ SubSeq(t, 1, 3) = Dashes /\ ~(Len(t) >= 4 /\ t[4] = "-")
closeIndex(t) ==
    LET at == {n \in 4..Len(t) - 3 : t[n] = NL /\ SubSeq(t, n + 1, n + 3) = Dashes}
    IN  IF at = {} THEN Len(t) + 1 ELSE CHOOSE n \in at : \A m \in at : n <= m
matter(t) ==
    IF ~hasMatter(t) THEN [data |-> {}, content |-> t]
    ELSE LET c == closeIndex(t)
             block == trimText(SubSeq(t, 4, c - 1))
             rest == SubSeq(t, c + 4, Len(t))
         IN  [data |-> IF block = <<>> THEN {} ELSE {block},
              content |-> IF rest # <<>> /\ Head(rest) = NL THEN Tail(rest) ELSE rest]

\* lines 335-372
parseObsidianFile(fileContent) ==
    LET h1AtStartMatch == headingAt(fileContent, 1, TRUE)
        title1 == IF h1AtStartMatch.ok
                  THEN trimText(SubSeq(fileContent, h1AtStartMatch.from, h1AtStartMatch.to))
                  ELSE <<>>
        content1 == IF h1AtStartMatch.ok
                    THEN SubSeq(fileContent, h1AtStartMatch.to + 2, Len(fileContent))
                    ELSE fileContent
        parsed == matter(trimStart(content1))
        h1Match == firstHeading(parsed.content)
        title2 == IF title1 = <<>> /\ h1Match.ok
                  THEN trimText(SubSeq(parsed.content, h1Match.from, h1Match.to))
                  ELSE title1
        content2 == IF title1 = <<>> /\ h1Match.ok
                    THEN stripLeadingHeading(parsed.content)
                    ELSE parsed.content
    IN  [title |-> title2, frontmatter |-> parsed.data, content |-> stripLeadingHeading(content2)]

TextChars == {"#", " ", NL, "a"}
Texts(n) == UNION {[1..m -> TextChars] : m \in 0..n}
MetaBlock == <<"-", "-", "-", NL, "k", NL, "-", "-", "-", NL>>
\* documents with no metadata block, and documents with one after a few characters
ParseInputs ==
    Texts(MaxText)
        \cup {pre \o MetaBlock \o post : pre \in Texts(2), post \in Texts(MaxText - 4)}

ParseInit ==
    /\ arg \in [fileContent : ParseInputs]
    /\ result = NoResult
    /\ SyncOff

\* line 379: parseObsidianFile(fileContent)
callParseObsidianFile ==
    /\ ~result.done
    /\ result' = [done |-> TRUE, value |-> parseObsidianFile(arg.fileContent)]
    /\ UNCHANGED <<arg, syncVars, watchVars, catVars>>

ParseNext == callParseObsidianFile

ParseSpec == ParseInit /\ [][ParseNext]_vars

\* ====================== sync-content.ts: the alt text of a downloaded embed-link
\* A filename is a sequence of characters.
HashLen == 8                \* line 62: .slice(0, 8)
HexChars == {"0", "1", "2", "3", "4", "5", "6", "7", "8", "9", "a", "b", "c", "d", "e", "f"}
WordChars == HexChars \cup {"g", "j", "n", "p", "_"}      \* the \w of the alphabet used

\* line 74: baseName, "-", hash, ext
localFilenameOf(baseName, hash, ext) == baseName \o <<"-">> \o hash \o ext

\* line 257: .replace(/[-_]/g, ' ')
replaceSeparators(s) == [n \in 1..Len(s) |-> IF s[n] \in {"-", "_"} THEN " " ELSE s[n]]

\* line 257: .replace(/\.\w+$/, ''): the last "." with one or more word
\* characters, and nothing else, after it
stripExtension(s) ==
    LET dots == {n \in 1..Len(s) - 1 :
                    s[n] = "." /\ \A m \in n + 1..Len(s) : s[m] \in WordChars}
    IN  IF dots = {} THEN s ELSE SubSeq(s, 1, (CHOOSE n \in dots : TRUE) - 1)

\* line 257: .replace(/-[a-f0-9]{8}$/, '')
stripHashSuffix(s) ==
    IF /\ Len(s) >= HashLen + 1
       /\ s[Len(s) - HashLen] = "-"
       /\ \A n \in Len(s) - HashLen + 1..Len(s) : s[n] \in HexChars
    THEN SubSeq(s, 1, Len(s) - HashLen - 1)
    ELSE s

\* line 257: the three replacements, in the order the code applies them
altTextOf(localFilename) ==
    stripHashSuffix(stripExtension(replaceSeparators(localFilename)))

BaseChars == {"p", "1", "-", "_"}
BaseNames == UNION {[1..n -> BaseChars] : n \in 0..MaxBase}
Hashes == { <<"1", "a", "2", "b", "3", "c", "4", "d">>,
            <<"0", "0", "0", "0", "0", "0", "0", "0">> }
Extensions == { <<".", "j", "p", "g">>, <<".", "p", "n", "g">> }

AltInit ==
    /\ arg \in [baseName : BaseNames, hash : Hashes, ext : Extensions]
    /\ result = NoResult
    /\ SyncOff

\* lines 255-258: the alt text of an embed-link whose URL was downloaded
callAltText ==
    /\ ~result.done
    /\ result' = [done |-> TRUE,
                  value |-> altTextOf(localFilenameOf(arg.baseName, arg.hash, arg.ext))]
    /\ UNCHANGED <<arg, syncVars, watchVars, catVars>>

AltNext == callAltText

AltSpec == AltInit /\ [][AltNext]_vars

\* ================================================================ properties
Files == DOMAIN vault
\* the documents whose processing throws: unreadable, an external URL that
\* new URL() rejects, or an image to copy that copyFileSync cannot copy
Throws(f) ==
    \/ ~vault[f].readable
    \/ \E u \in SeqToSet(extractExternalUrls(vault[f].body)) : u \notin URLS
    \/ \E n \in SeqToSet(toCopy(vault[f])) : n \in DOMAIN srcImages /\ srcImages[n] = "directory"
WrittenDocs == {f \in outFiles : [tree |-> "docs", dir |-> f.dir, name |-> f.name] \in written}

\* C1: every enumerated file is attempted at most once while the run goes on and
\* exactly once by the time the summary is printed; each file that throws adds
\* one to errors, each other file one to processed, so processed + errors = n.
C1_EachFileOnceAndCounted ==
    /\ \A f \in Files : attempts[f] <= 1
    /\ pc \in {"loop", "download"} =>
          /\ processed + errors = i - 1
          /\ \A n \in 1..Len(fileList) : attempts[fileList[n]] = (IF n < i \/ (pc = "download" /\ n = i) THEN 1 ELSE 0)
    /\ pc = "done" =>
          /\ \A f \in Files : attempts[f] = 1
          /\ errors = Cardinality({f \in Files : Throws(f)})
          /\ processed = Cardinality({f \in Files : ~Throws(f)})
          /\ processed + errors = Cardinality(Files)

\* C1 witness: the first file threw, the second was processed, the summary is printed
C1_Witness ==
    /\ pc = "done" /\ Len(fileList) = 2
    /\ Throws(fileList[1]) /\ ~Throws(fileList[2])
    /\ errors = 1 /\ processed = 1

\* C2: every run reaches the summary line, whatever the remote servers answer.
C2_RunReachesSummary == <>(pc = "done")

\* C3: downloadImage never raises: its promise is never rejected or left
\* unresolved by a throw, whatever the failure class.
C3_DownloadNeverRaises == pc # "crashed"

\* what resolving a Location header against the redirected URL gives
ResolvedTarget(loc, url) ==
    IF loc.form = "http-url" THEN loc.url ELSE ResolveRelative(loc.ref, url)

\* C4: a redirect with a Location header (an absolute http(s) URL, or a relative
\* reference) is followed by a request of the resolved target with the same
\* destination, and a fetch returns true exactly when it ends with a 200 whose
\* body is at the destination.
C4_RedirectFollowed ==
    [][/\ \A loc \in {l \in Locations : l.form \in {"http-url", "relative"}} :
             RespondRedirect(loc) =>
                 fetch'.url = ResolvedTarget(loc, fetch.url) /\ fetch'.dest = fetch.dest
       /\ (Fetching /\ fetch' = NoFetch) =>
             (CurUrls[k] \in DOMAIN urlToLocal'
                 <=> /\ outcome'[CurUrls[k]] = "ok"
                     /\ [dir |-> fetch.dest.dir, name |-> fetch.dest.name,
                         content |-> BodyOf(CurUrls[k])] \in assetFiles')]_vars

DownloadNames == {generateLocalFilename(u) : u \in URLS}

\* C6: every downloaded image an emitted body references is in the asset
\* directory of that document, cache or no cache.
C6_ReferencedDownloadsPresent ==
    \A f \in WrittenDocs :
        \A n \in 1..Len(f.content.body) :
            LET t == f.content.body[n]
            IN  (t.k = "img" /\ t.file \in DownloadNames) => HasFile(assetFiles, t.dir, t.file)

\* C7: nothing is read or written before the wipe, and from the wipe on both
\* output trees hold only directories and files this run made.
C7_OnlyThisRunsOutput ==
    /\ pc = "start" => (written = {} /\ \A f \in Files : attempts[f] = 0)
    /\ pc # "start" =>
          /\ \A f \in outFiles : [tree |-> "docs", dir |-> f.dir, name |-> f.name] \in written
          /\ \A f \in assetFiles : [tree |-> "assets", dir |-> f.dir, name |-> f.name] \in written
          /\ outDirs \cup assetDirs \subseteq {SlugOf(f) : f \in Files}

\* C7 witness: a run that found leftovers of an earlier run has ended with output of its own
C7_Witness ==
    /\ pc = "done" /\ run = "first"
    /\ outFiles # {} /\ assetFiles # {}

AllDated == \A f \in Files : vault[f].dated

ValidCategories == {"travels", "tech", "books", "philosophy"}

\* C9: every index document written has title, description, pubDate, heroAlt,
\* featured, draft and a category of the valid set.
C9_SchemaSatisfied ==
    \A f \in WrittenDocs :
        /\ {"title", "description", "pubDate", "heroAlt", "category", "featured", "draft"}
               \subseteq f.content.keys
        /\ f.content.category \in ValidCategories

\* C5: at most one spawned sync process is active (spawned, not killed, not
\* closed) at any time.
C5_AtMostOneSyncActive ==
    Cardinality({p \in 1..Len(procs) : procs[p] = "running"}) <= 1

\* the table lookup the specification describes: the first tag, in list order, with an entry
FirstMapped(list) ==
    LET hits == {n \in 1..Len(list) : list[n] \in DOMAIN CATEGORY_MAP}
    IN  IF hits = {} THEN "tech"
        ELSE CATEGORY_MAP[list[CHOOSE n \in hits : \A m \in hits : n <= m]]

SourceOf(f) == f.content.title

FirstLocal(body) ==
    LET idx == {n \in 1..Len(body) : body[n].k = "local"}
    IN  IF idx = {} THEN "" ELSE body[CHOOSE n \in idx : \A m \in idx : n <= m].name

\* C12: in an emitted document a frontmatter heroImage that is not blank after
\* trimming is the hero image; otherwise the first in-body local image is;
\* when there is neither, the warning is given and the metadata block has no
\* heroImage line. The warning is given for no other document.
C12_HeroImageOrder ==
    /\ \A f \in WrittenDocs :
          LET doc == vault[SourceOf(f)]
              explicit == trim(doc.heroImage) # ""
              first == FirstLocal(doc.body)
          IN  /\ explicit =>
                    /\ "heroImage" \in f.content.keys
                    /\ f.content.heroImage = [dir |-> f.dir, name |-> doc.heroImage]
              /\ (~explicit /\ first # "") =>
                    /\ "heroImage" \in f.content.keys
                    /\ f.content.heroImage = [dir |-> f.dir, name |-> first]
              /\ (~explicit /\ first = "") =>
                    /\ "heroImage" \notin f.content.keys
                    /\ SourceOf(f) \in warned
    /\ \A file \in warned :
          trim(vault[file].heroImage) = "" /\ FirstLocal(vault[file].body) = ""

\* C12 witness: a document with frontmatter heroImage p.jpg and ![[q.jpg]] in its
\* body was emitted with p.jpg as hero image, and another one was warned about
C12_Witness ==
    /\ \E f \in WrittenDocs :
          /\ vault[SourceOf(f)].heroImage = "p.jpg"
          /\ FirstLocal(vault[SourceOf(f)].body) = "q.jpg"
          /\ f.content.heroImage.name = "p.jpg"
    /\ warned # {}

\* C13: the heroImage reference of an emitted document names a file that is in
\* the asset directory of its slug.
C13_HeroImageResolves ==
    \A f \in WrittenDocs :
        "heroImage" \in f.content.keys =>
            HasFile(assetFiles, f.content.heroImage.dir, f.content.heroImage.name)

\* C14: at the end of a run every directory of the document-output root holds
\* an index.mdx, the directories of documents that threw included.
C14_EveryDirHasIndex ==
    pc = "done" => \A d \in outDirs : HasFile(outFiles, d, "index.mdx")

\* C15: two distinct source files processed in the same run have different slugs.
C15_SlugsUnique ==
    \A f, g \in Files :
        (f # g /\ attempts[f] = 1 /\ attempts[g] = 1) => SlugOf(f) # SlugOf(g)

\* C19: at most one network transfer is open at any moment, and a transfer
\* still open belongs to the document being processed (the next document has
\* not started, the run has not ended).
C19_StrictlySequential ==
    /\ Cardinality(late) + (IF fetch # NoFetch THEN 1 ELSE 0) <= 1
    /\ \A d \in late : pc = "download" /\ d.dest.dir = CurSlug

\* C20: no step creates, changes or deletes a file of the source documents
\* directory or of the source images directory.
C20_SourceReadOnly ==
    [][vault' = vault /\ srcImages' = srcImages /\ publishedDir' = publishedDir]_vars

\* the slug the rule describes, built from the letters and digits of the
\* lower-cased stem: they follow each other in order, with one "-" between two
\* of them exactly where the stem has other characters between them
RuleSlug(stem) ==
    LET low == toLowerCase(stem)
        P == {n \in 1..Len(low) : low[n] \in SlugChars}
        F[n \in 0..Len(low)] ==
            IF n = 0 THEN <<>>
            ELSE IF n \notin P THEN F[n - 1]
            ELSE IF F[n - 1] # <<>> /\ n - 1 \notin P THEN F[n - 1] \o <<"-", low[n]>>
            ELSE Append(F[n - 1], low[n])
    IN  F[Len(low)]

\* C16: with no frontmatter slug the slug is the stem of the filename,
\* lower-cased, each maximal run of characters outside a-z0-9 replaced by one
\* "-", leading and trailing "-" removed: only a-z, 0-9 and single "-" between
\* them; a frontmatter slug that is not empty is returned unchanged.
C16_SlugGeneration ==
    result.done =>
        IF arg.frontmatterSlug # <<>> THEN result.value = arg.frontmatterSlug
        ELSE LET v == result.value
             IN  /\ v = RuleSlug(arg.stem)
                 /\ \A n \in 1..Len(v) : v[n] \in SlugChars \cup {"-"}
                 /\ \A n \in 1..Len(v) - 1 : ~(v[n] = "-" /\ v[n + 1] = "-")
                 /\ v # <<>> => (v[1] # "-" /\ v[Len(v)] # "-")

\* C16 witness: "A. b.md" gave "a-b"
C16_Witness ==
    /\ result.done /\ arg.frontmatterSlug = <<>>
    /\ arg.stem = <<"A", ".", " ", "b">>
    /\ result.value = <<"a", "-", "b">>

\* A fenced block, as the specification tracks it: a line whose first
\* characters after the indentation are three backticks toggles the fence; the
\* fence lines belong to the block.
IsFenceLine(line) ==
    \E n \in 1..Len(line) :
        /\ \A m \in 1..n - 1 : line[m] = " "
        /\ n + 2 <= Len(line) /\ line[n] = Tick /\ line[n + 1] = Tick /\ line[n + 2] = Tick
InFencedBlock(content, n) ==
    \/ IsFenceLine(content[n])
    \/ Cardinality({m \in 1..n - 1 : IsFenceLine(content[m])}) % 2 = 1

\* An inline-code span of a line: a backtick, one or more other characters, a
\* backtick, taken from left to right. SpanEnds[q] says that a span ends at q:
\* q is a backtick, the backtick before it is at least two places back and does
\* not itself end a span.
PrevTick(line, q) ==
    LET ticks == {p \in 1..q - 1 : line[p] = Tick}
    IN  IF ticks = {} THEN 0 ELSE CHOOSE p \in ticks : \A r \in ticks : r <= p
SpanEnds(line) ==
    LET E[q \in 0..Len(line)] ==
            /\ q > 0 /\ line[q] = Tick
            /\ PrevTick(line, q) # 0 /\ q - PrevTick(line, q) >= 2
            /\ ~E[PrevTick(line, q)]
    IN  E
InInlineCode(line, p) ==
    \E q \in p..Len(line) : SpanEnds(line)[q] /\ PrevTick(line, q) <= p

\* the line with a backslash before each curly brace outside its inline-code spans
EscapedOutsideCode(line) ==
    LET F[p \in 0..Len(line)] ==
            IF p = 0 THEN <<>>
            ELSE IF line[p] \in {"{", "}"} /\ ~InInlineCode(line, p)
                 THEN F[p - 1] \o <<Backslash, line[p]>>
                 ELSE Append(F[p - 1], line[p])
    IN  F[Len(line)]

\* C17: the escape pass returns the body with a backslash put before each curly
\* brace outside fenced blocks and inline-code spans; the lines of a fenced
\* block and the characters of an inline-code span come back unchanged.
C17_EscapeOutsideCodeOnly ==
    result.done =>
        /\ Len(result.value) = Len(arg.content)
        /\ \A n \in 1..Len(arg.content) :
              result.value[n] = IF InFencedBlock(arg.content, n)
                                THEN arg.content[n]
                                ELSE EscapedOutsideCode(arg.content[n])

\* C17 witness: the line BACKTICK { BACKTICK { came back with the second brace escaped, and the
\* same line inside a fence unchanged
C17_Witness ==
    /\ result.done
    /\ arg.content = << <<Tick, Tick, Tick>>, <<Tick, "{", Tick, "{">>,
                        <<Tick, Tick, Tick>>, <<Tick, "{", Tick, "{">> >>
    /\ result.value[2] = <<Tick, "{", Tick, "{">>
    /\ result.value[4] = <<Tick, "{", Tick, Backslash, "{">>

\* a document has a metadata block when --- opens a line of it
LacksMetadataBlock(t) ==
    ~\E n \in 1..Len(t) - 2 : (n = 1 \/ t[n - 1] = NL) /\ SubSeq(t, n, n + 2) = Dashes

\* a top-level heading line at the start of t: #, spaces, a text, the line
\* break; the number of characters of it, with the line breaks that follow
HeadingLineLen(t) ==
    IF Len(t) >= 2 /\ t[1] = "#" /\ t[2] = " "
       /\ trimText(SubSeq(t, 2, lineRunEnd(t, 2))) # <<>>
       /\ lineRunEnd(t, 2) + 1 <= Len(t)
    THEN newlineRunEnd(t, lineRunEnd(t, 2) + 1)
    ELSE 0
RECURSIVE OnlyHeadingLines(_)
OnlyHeadingLines(t) ==
    \/ t = <<>>
    \/ HeadingLineLen(t) > 0 /\ OnlyHeadingLines(SubSeq(t, HeadingLineLen(t) + 1, Len(t)))

\* C18: for a document with no metadata block the frontmatter is empty and the
\* body is the text without heading lines stripped from it: what was removed
\* is heading lines (with their line breaks) and nothing else.
C18_BodyVerbatim ==
    (result.done /\ LacksMetadataBlock(arg.fileContent)) =>
        /\ result.value.frontmatter = {}
        /\ \E j \in 0..Len(arg.fileContent) :
              /\ result.value.content = SubSeq(arg.fileContent, j + 1, Len(arg.fileContent))
              /\ OnlyHeadingLines(SubSeq(arg.fileContent, 1, j))

\* the place of u in the URL list of a document
PositionOf(u, urls) == CHOOSE n \in 1..Len(urls) : urls[n] = u
\* the n-th listed document has been through the download loop as far as u:
\* the cache was looked up for u and, when u was not in it, u was fetched
ExternalUrlsOf == [d \in Documents |-> extractExternalUrls(d.body)]
Reached(n, u) ==
    LET doc == vault[fileList[n]]
        urls == ExternalUrlsOf[doc]
    IN  /\ doc.readable
        /\ u \in SeqToSet(urls)
        /\ \A m \in 1..PositionOf(u, urls) - 1 : urls[m] \in URLS
        /\ \/ n < i
           \/ n = i /\ pc \in {"download", "crashed"} /\ k > PositionOf(u, urls)
ReturnedTrue(u) == \E j \in 1..Len(returned[u]) : returned[u][j]

\* C21: within a run the cache holds exactly the URLs a fetch returned true
\* for, each with the filename that fetch was given; no URL is fetched after a
\* fetch of it returned true, and a URL whose fetches all returned false has
\* been fetched once for every document that referenced it so far.
C21_CacheHoldsSuccessfulFetches ==
    \A u \in URLS :
        LET r == returned[u]
        IN  /\ u \in DOMAIN downloadedImages <=> ReturnedTrue(u)
            /\ DOMAIN downloadedImages \subseteq URLS
            /\ u \in DOMAIN downloadedImages => downloadedImages[u] = generateLocalFilename(u)
            /\ \A j \in 1..Len(r) - 1 : ~r[j]
            /\ ~ReturnedTrue(u) =>
                   Len(r) = Cardinality({n \in 1..Len(fileList) : Reached(n, u)})

\* C21 witness: of two documents that reference the same two URLs, the first
\* had one URL fetched with success and the other without; for the second the
\* first URL was not fetched again and the other was
C21_Witness ==
    /\ pc = "done"
    /\ \E u, v \in URLS :
          /\ returned[u] = <<TRUE>> /\ returned[v] = <<FALSE, FALSE>>
          /\ Cardinality({n \in 1..Len(fileList) : Reached(n, u)}) = 2
          /\ u \in DOMAIN downloadedImages /\ v \notin DOMAIN downloadedImages

\* the documents a failed download or a missing image does not account for:
\* the file cannot be read, or copyFileSync throws
Unrecoverable(f) ==
    \/ ~vault[f].readable
    \/ \E n \in SeqToSet(toCopy(vault[f])) : n \in DOMAIN srcImages /\ srcImages[n] = "directory"

\* C22: whatever external URLs a document has and whatever images are missing,
\* the document is emitted and counted as processed, and errors counts only
\* the documents that cannot be read or copied.
C22_FailuresRecoverable ==
    pc = "done" =>
        /\ errors = Cardinality({f \in Files : Unrecoverable(f)})
        /\ \A f \in Files :
              ~Unrecoverable(f) =>
                  [tree |-> postDirTree(SlugOf(f)), dir |-> SlugOf(f), name |-> "index.mdx"]
                      \in written

C26_WriteErrorLeavesNoFile ==
    [][WriteStreamError => ~HasFile(assetFiles', fetch.dest.dir, fetch.dest.name)]_vars

\* C27: once the run has ended and every deletion it issued is done, the asset
\* tree holds no partially downloaded image.
C27_NoPartialFile ==
    Exited => \A f \in assetFiles : f.content # "partial"

\* C24: the alt text of a downloaded embed-link is the base name of the local
\* filename with separators replaced by spaces: the extension and the "-" and
\* the hash after it are stripped, and the alt text does not end with the hash.
C24_AltTextStripsHash ==
    result.done =>
        /\ result.value = replaceSeparators(arg.baseName)
        /\ ~(/\ Len(result.value) >= HashLen
              /\ SubSeq(result.value, Len(result.value) - HashLen + 1, Len(result.value))
                     = arg.hash)

\* the text after the metadata block, as step 3 of the parser finds it
BodyAfterMetadata(t) == matter(trimStart(t)).content
\* a top-level heading line begins at place s of b: "#", a space and a text,
\* at the start of a line
IsHeadingLineAt(b, s) ==
    /\ s = 1 \/ b[s - 1] = NL
    /\ s + 1 <= Len(b) /\ b[s] = "#" /\ b[s + 1] = " "
    /\ trimText(SubSeq(b, s + 1, lineRunEnd(b, s + 1))) # <<>>
FirstHeadingLine(b) ==
    LET at == {s \in 1..Len(b) : IsHeadingLineAt(b, s)}
    IN  IF at = {} THEN 0 ELSE CHOOSE s \in at : \A r \in at : s <= r
\* b without the line that begins at s: with its line break, or with the blank
\* lines after it too
WithoutLine(b, s) ==
    LET e == lineRunEnd(b, s + 1)
    IN  { SubSeq(b, 1, s - 1) \o SubSeq(b, e + 2, Len(b)),
          SubSeq(b, 1, s - 1) \o SubSeq(b, newlineRunEnd(b, e + 1) + 1, Len(b)) }

\* C25: when the document does not begin with a heading, the first top-level
\* heading line of the body after the metadata block gives the title, and the
\* returned body is the body without that line (step 4 may then strip one more
\* leading heading).
C25_FirstHeadingBecomesTitle ==
    result.done =>
        LET t == trimStart(arg.fileContent)
            b == BodyAfterMetadata(arg.fileContent)
            s == FirstHeadingLine(b)
        IN  ((t = <<>> \/ Head(t) # "#") /\ s # 0) =>
                /\ result.value.title = trimText(SubSeq(b, s + 1, lineRunEnd(b, s + 1)))
                /\ \E x \in WithoutLine(b, s) :
                       result.value.content \in {x, stripLeadingHeading(x)}

\* C28: at most one timer is pending; a watcher event cancels the pending timer
\* and sets a new one of 500 ms; a sync process is spawned only when 500 ms have
\* passed since the last event, at most once for a burst, and when an event
\* begins a new burst the burst before it has spawned exactly one.
C28_Debounce ==
    [][/\ Cardinality(timers') <= 1
       /\ burstSpawns' <= 1
       /\ changes' # changes =>
              /\ timers' = {[id |-> changes', left |-> DEBOUNCE_MS]}
              /\ debounceTimer' = changes'
              /\ (changes > 0 /\ quiet >= DEBOUNCE_MS) => burstSpawns = 1
       /\ Len(procs') # Len(procs) =>
              /\ quiet >= DEBOUNCE_MS
              /\ changes > 0 /\ timers' = {}]_vars

\* C28 witness: three events followed each other within 500 ms, and one sync
\* process, the only one so far, was spawned after the last of them
C28_Witness ==
    /\ changes = 3 /\ Len(procs) = 1 /\ burstSpawns = 1 /\ quiet >= DEBOUNCE_MS

\* C29: after a watcher event, unless the watcher is stopped, a sync process
\* spawned after the last event closes without having been killed.
C29_NoChangeLost ==
    (changes > 0 /\ ~served) ~> (served \/ mdWatcher = "closed")

\* C29 witness: an event killed a running sync process, and the process spawned
\* after the last event closed unkilled while the watcher was on
C29_Witness ==
    /\ served /\ mdWatcher = "watching"
    /\ Len(procs) >= 2 /\ changes >= 2
    /\ \A p \in 1..Len(procs) : procs[p] = "closed"

\* C30: for every source file, the backup exists from the first time the file
\* is processed and as long as the file differs from its original content; it
\* holds the original content whatever was run since; the first invocation
\* reads the file, every later one the backup, and the file is the original or
\* what the rewrite makes of the original.
C30_BackupsPreserved ==
    \A f \in DOMAIN original :
        LET bak == backupPathOf(f)
        IN  /\ bak \in DOMAIN folder => folder[bak] = original[f]
            /\ (reads[f] # <<>> \/ folder[f] # original[f]) => bak \in DOMAIN folder
            /\ \A n \in 1..Len(reads[f]) : reads[f][n] = IF n = 1 THEN f ELSE bak
            /\ folder[f] \in {original[f], newContent(original[f])}
            /\ Len(reads[f]) <= fmRuns

\* C30 witness: a file that opened with a heading was rewritten by the first
\* invocation and again, from the backup, by the second
C30_Witness ==
    \E f \in DOMAIN original :
        /\ fmRuns = 2 /\ original[f].heading
        /\ reads[f] = <<f, backupPathOf(f)>>
        /\ folder[f] = newContent(original[f]) /\ folder[f] # original[f]
        /\ folder[backupPathOf(f)] = original[f]

====
